---------------------------- MODULE Spec2Model ----------------------------
(***************************************************************************)
(* Model of the context examples of the repository: three provider /      *)
(* consumer trees.                                                         *)
(*   CountProvider   > CompB    (Components/CountContext, CompB.jsx)       *)
(*   CollegeProvider > CompA    (CollegeContext, CompA.jsx)                *)
(*   ThemeProvider   > Navbar   (UserHooks.md ThemeContext.js, Navbar.jsx) *)
(* A tree is mounted either with its provider around the consumers or     *)
(* without it.  A state update and the render + commit it causes are one  *)
(* step: the JavaScript run to completion and React's commit leave no     *)
(* painted state in between.                                               *)
(***************************************************************************)
EXTENDS Integers, Sequences, FiniteSets, TLC

\* ---------------------------------------------------------------- bounds
MaxVal == 1          \* setter arguments range over -MaxVal..MaxVal, 42, 100
NumCompB == 2        \* CompB instances rendered below CountProvider
MaxClicks == 2       \* clicks on Toggle Theme counted per mount
MaxMounts == 2       \* CollegeProvider instances created in one run
MaxRequests == 2     \* requests one CollegeProvider instance may issue

\* ------------------------------------------------------- CountContext.jsx
InitialCount == 100

Values == (-MaxVal .. MaxVal) \cup {42, InitialCount}

\* [variant] createContext({count: 0, ...}): a default object stands in for
\* the missing provider
useContextWithDefault(wrapped, value) == <<value>>

\* createContext() without a default: a consumer with no provider above it
\* reads undefined.  <<>> stands for undefined, <<v>> for the object v.
Undefined == <<>>

useContext(wrapped, value) == IF wrapped THEN <<value>> ELSE Undefined

\* [variant] a setter that validates: negative values are refused
setCountValidated(prev, v) == IF v < 0 THEN prev ELSE v

\* basicStateReducer of useState for a non-function argument: the argument
\* replaces the state.
setCount(prev, v) == v

\* value = {{count, setCount}}
CountProvider(c) == [count |-> c]

\* const {count, setCount} = useContext(CountContext); <div>{count}</div>
CompB(ctx) ==
    IF Len(ctx) = 0
    THEN [threw |-> TRUE, div |-> 0]
    ELSE [threw |-> FALSE, div |-> ctx[1].count]

\* [variant] only the first consumer is rendered again after the first
\* commit; the others keep what they showed
RenderCountStale(wrapped, c) ==
    LET outs == [k \in 1 .. NumCompB |->
                    CompB(useContext(wrapped,
                        CountProvider(IF k = 1 THEN c ELSE InitialCount)))]
    IN  IF \E k \in 1 .. NumCompB : outs[k].threw
        THEN [status |-> "crashed", dom |-> <<>>]
        ELSE [status |-> "mounted",
              dom |-> [k \in 1 .. NumCompB |-> outs[k].div]]

\* One render + commit of the count tree.  An exception thrown by a consumer
\* is caught by nobody: React removes the whole tree.
RenderCount(wrapped, c) ==
    LET outs == [k \in 1 .. NumCompB |->
                    CompB(useContext(wrapped, CountProvider(c)))]
    IN  IF \E k \in 1 .. NumCompB : outs[k].threw
        THEN [status |-> "crashed", dom |-> <<>>]
        ELSE [status |-> "mounted",
              dom |-> [k \in 1 .. NumCompB |-> outs[k].div]]

\* lastSet: <<>> before the first setter call of the current mount, <<v>>
\* after the call setCount(v) (a record of the input, not program state)
VARIABLES countStatus, countWrapped, count, lastSet, countDom

countVars == <<countStatus, countWrapped, count, lastSet, countDom>>

CountInit ==
    /\ countStatus = "unmounted"
    /\ countWrapped = TRUE
    /\ count = InitialCount
    /\ lastSet = <<>>
    /\ countDom = <<>>

\* [variant] the counter kept outside the provider instance: a new mount
\* finds the value the last one left
MountCountKeep(wrapped) ==
    /\ countStatus = "unmounted"
    /\ countWrapped' = wrapped
    /\ count' = count
    /\ lastSet' = <<>>
    /\ LET r == RenderCount(wrapped, count)
       IN  /\ countStatus' = r.status
           /\ countDom' = r.dom

\* root.render(<CountProvider><CompB/></CountProvider>) or, with
\* wrapped = FALSE, root.render(<CompB/>)
MountCount(wrapped) ==
    /\ countStatus = "unmounted"
    /\ countWrapped' = wrapped
    /\ count' = IF wrapped THEN InitialCount ELSE count
    /\ lastSet' = <<>>
    /\ LET r == RenderCount(wrapped, InitialCount)
       IN  /\ countStatus' = r.status
           /\ countDom' = r.dom

\* a consumer calls the setter it read from the context
CallSetCount(v) ==
    /\ countStatus = "mounted"
    /\ countWrapped
    /\ count' = setCount(count, v)
    /\ lastSet' = <<v>>
    /\ LET r == RenderCount(countWrapped, setCount(count, v))
       IN  /\ countStatus' = r.status
           /\ countDom' = r.dom
    /\ UNCHANGED countWrapped

UnmountCount ==
    /\ countStatus # "unmounted"
    /\ countStatus' = "unmounted"
    /\ countDom' = <<>>
    /\ UNCHANGED <<countWrapped, count, lastSet>>

\* ------------------------------------------- ThemeContext.js, Navbar.jsx
InitialTheme == "light"

\* value = {{theme, setTheme}}
ThemeProvider(t) == [theme |-> t]

\* [variant] a handler that only switches the dark theme on
onClickDarkOnly(t) == "dark"

\* onClick={() => setTheme(theme === "light" ? "dark" : "light")}
onClick(t) == IF t = "light" THEN "dark" ELSE "light"

\* const {theme, setTheme} = useContext(ThemeContext); the styled div and
\* the heading {theme} MODE (two text nodes)
Navbar(ctx) ==
    IF Len(ctx) = 0
    THEN [threw |-> TRUE, backgroundColor |-> "", color |-> "", h1 |-> <<>>]
    ELSE LET t == ctx[1].theme
         IN  [threw |-> FALSE,
              backgroundColor |-> IF t = "light" THEN "#fff" ELSE "#222",
              color |-> IF t = "light" THEN "#000" ELSE "#fff",
              h1 |-> <<t, " MODE">>]

RenderTheme(wrapped, t) ==
    LET out == Navbar(useContext(wrapped, ThemeProvider(t)))
    IN  IF out.threw
        THEN [status |-> "crashed", dom |-> <<>>]
        ELSE [status |-> "mounted", dom |-> <<out>>]

\* clicks: clicks on the button since the current mount (a record of the
\* input, not program state)
VARIABLES themeStatus, themeWrapped, theme, clicks, themeDom

themeVars == <<themeStatus, themeWrapped, theme, clicks, themeDom>>

ThemeInit ==
    /\ themeStatus = "unmounted"
    /\ themeWrapped = TRUE
    /\ theme = InitialTheme
    /\ clicks = 0
    /\ themeDom = <<>>

MountTheme(wrapped) ==
    /\ themeStatus = "unmounted"
    /\ themeWrapped' = wrapped
    /\ theme' = IF wrapped THEN InitialTheme ELSE theme
    /\ clicks' = 0
    /\ LET r == RenderTheme(wrapped, InitialTheme)
       IN  /\ themeStatus' = r.status
           /\ themeDom' = r.dom

\* the user clicks Toggle Theme; the handler is the one of the last render
ClickToggle ==
    /\ themeStatus = "mounted"
    /\ themeWrapped
    /\ clicks < MaxClicks
    /\ clicks' = clicks + 1
    /\ theme' = onClick(theme)
    /\ LET r == RenderTheme(themeWrapped, onClick(theme))
       IN  /\ themeStatus' = r.status
           /\ themeDom' = r.dom
    /\ UNCHANGED themeWrapped

UnmountTheme ==
    /\ themeStatus # "unmounted"
    /\ themeStatus' = "unmounted"
    /\ themeDom' = <<>>
    /\ UNCHANGED <<themeWrapped, theme, clicks>>


\* ------------------------------------------- CollegeContext, CompA.jsx
\* A JavaScript value as far as CompA looks at it: its type and the result
\* of reading its property category (<<>> for undefined).
EmptyString == [type |-> "string", category |-> <<>>]

Object(category) == [type |-> "object", category |-> category]

\* useState("")
InitialJoke == EmptyString

\* Response bodies the network may deliver: JSON objects and one body that
\* is not JSON.
Bodies == {"{\"category\":\"Programming\"}", "{\"error\":true}", "<html>"}

NoBody == ""

\* [variant] a lenient parser: what is not JSON becomes an empty object
jsonLenient(body) ==
    CASE body = "{\"category\":\"Programming\"}" ->
            [ok |-> TRUE, data |-> Object(<<"Programming">>)]
      [] OTHER -> [ok |-> TRUE, data |-> Object(<<>>)]

\* response.json(): the parsed value, or a rejection on a syntax error
json(body) ==
    CASE body = "{\"category\":\"Programming\"}" ->
            [ok |-> TRUE, data |-> Object(<<"Programming">>)]
      [] body = "{\"error\":true}" ->
            [ok |-> TRUE, data |-> Object(<<>>)]
      [] OTHER -> [ok |-> FALSE, data |-> EmptyString]

\* [variant] a setter whose write is lost
setJokeLost(prev, data) == prev

\* basicStateReducer of useState for a non-function argument
setJoke(prev, data) == data

\* [variant] useEffect without a dependency array: the effect runs after
\* every render
useEffectNoDeps(isMount) == TRUE

\* useEffect(..., []): the effect runs after the first render and, the
\* dependency array being empty, after no later render.
useEffect(isMount) == isMount

\* value = {{joke}}
CollegeProvider(j) == [joke |-> j]

\* JavaScript truthiness of a property value: undefined and "" are falsy
Truthy(v) == Len(v) = 1 /\ v[1] # ""

\* [variant] CompA without the conditional heading
CompANoHeading(ctx) ==
    IF Len(ctx) = 0
    THEN [threw |-> TRUE, h1 |-> "", h2 |-> <<>>]
    ELSE [threw |-> FALSE, h1 |-> "Joke of the day", h2 |-> <<>>]

\* [variant] CompA with the heading not guarded by joke.category: an
\* undefined category renders as no text after "Category: "
CompAUnguarded(ctx) ==
    IF Len(ctx) = 0
    THEN [threw |-> TRUE, h1 |-> "", h2 |-> <<>>]
    ELSE LET joke == ctx[1].joke
         IN  [threw |-> FALSE,
              h1 |-> "Joke of the day",
              h2 |-> IF Len(joke.category) = 1
                     THEN <<"Category: ", joke.category[1]>>
                     ELSE <<"Category: ">>]

\* const {joke} = useContext(CollegeContext); <h1>Joke of the day</h1> and
\* {joke.category && <h2>Category: {joke.category}</h2>}
CompA(ctx) ==
    IF Len(ctx) = 0
    THEN [threw |-> TRUE, h1 |-> "", h2 |-> <<>>]
    ELSE LET joke == ctx[1].joke
         IN  [threw |-> FALSE,
              h1 |-> "Joke of the day",
              h2 |-> IF Truthy(joke.category)
                     THEN <<"Category: ", joke.category[1]>>
                     ELSE <<>>]

RenderCollege(wrapped, j) ==
    LET out == CompA(useContext(wrapped, CollegeProvider(j)))
    IN  IF out.threw
        THEN [status |-> "crashed", dom |-> <<>>]
        ELSE [status |-> "mounted", dom |-> <<out>>]

\* inst: the CollegeProvider instances created so far; the mounted one is
\*   the last.  requests[i]: the requests instance i has issued, each at its
\*   position in the promise chain.  setJokeCalls[i]: calls of instance i's
\*   setter.  effectPending: the first commit is done and its effect not
\*   yet run.
VARIABLES collegeStatus, collegeWrapped, inst, joke, effectPending,
          requests, setJokeCalls, collegeDom

collegeVars == <<collegeStatus, collegeWrapped, inst, joke, effectPending,
                 requests, setJokeCalls, collegeDom>>

Instances == 1 .. MaxMounts

CollegeInit ==
    /\ collegeStatus = "unmounted"
    /\ collegeWrapped = TRUE
    /\ inst = 0
    /\ joke = InitialJoke
    /\ effectPending = FALSE
    /\ requests = [i \in Instances |-> <<>>]
    /\ setJokeCalls = [i \in Instances |-> 0]
    /\ collegeDom = <<>>

\* root.render(<CollegeProvider><CompA/></CollegeProvider>) or, with
\* wrapped = FALSE, root.render(<CompA/>)
MountCollege(wrapped) ==
    /\ collegeStatus = "unmounted"
    /\ wrapped => inst < MaxMounts
    /\ collegeWrapped' = wrapped
    /\ inst' = IF wrapped THEN inst + 1 ELSE inst
    /\ joke' = IF wrapped THEN InitialJoke ELSE joke
    /\ effectPending' = (wrapped /\ useEffect(TRUE))
    /\ LET r == RenderCollege(wrapped, InitialJoke)
       IN  /\ collegeStatus' = r.status
           /\ collegeDom' = r.dom
    /\ UNCHANGED <<requests, setJokeCalls>>

\* the effect: fetch("https://sv443.net/jokeapi/v2/joke/Any")
RunEffect ==
    /\ effectPending
    /\ Len(requests[inst]) < MaxRequests
    /\ effectPending' = FALSE
    /\ requests' = [requests EXCEPT
                      ![inst] = Append(@, [pos |-> "pending", body |-> NoBody])]
    /\ UNCHANGED <<collegeStatus, collegeWrapped, inst, joke, setJokeCalls,
                   collegeDom>>

\* the network answers request k of instance i with a response of body b
FetchFulfil(i, k, b) ==
    /\ requests[i][k].pos = "pending"
    /\ requests' = [requests EXCEPT ![i][k] = [pos |-> "response", body |-> b]]
    /\ UNCHANGED <<collegeStatus, collegeWrapped, inst, joke, effectPending,
                   setJokeCalls, collegeDom>>

\* the request fails: the promise of fetch rejects and no handler is attached
FetchReject(i, k) ==
    /\ requests[i][k].pos = "pending"
    /\ requests' = [requests EXCEPT ![i][k].pos = "rejected"]
    /\ UNCHANGED <<collegeStatus, collegeWrapped, inst, joke, effectPending,
                   setJokeCalls, collegeDom>>

\* .then((response) => response.json()).then(data => setJoke(data)): the body
\* has been read.  The setter of an instance that is no longer mounted
\* changes nothing that is rendered.
JsonSettle(i, k) ==
    /\ requests[i][k].pos = "response"
    /\ LET p == json(requests[i][k].body)
           live == i = inst /\ collegeStatus = "mounted" /\ collegeWrapped
       IN  IF ~p.ok
           THEN /\ requests' = [requests EXCEPT ![i][k].pos = "rejected"]
                /\ UNCHANGED <<collegeStatus, joke, effectPending,
                               setJokeCalls, collegeDom>>
           ELSE /\ requests' = [requests EXCEPT ![i][k].pos = "done"]
                /\ setJokeCalls' = [setJokeCalls EXCEPT ![i] = @ + 1]
                /\ IF live
                   THEN LET r == RenderCollege(collegeWrapped,
                                               setJoke(joke, p.data))
                        IN  /\ joke' = setJoke(joke, p.data)
                            /\ collegeStatus' = r.status
                            /\ collegeDom' = r.dom
                            /\ effectPending' = (effectPending \/ useEffect(FALSE))
                   ELSE UNCHANGED <<collegeStatus, joke, effectPending,
                                    collegeDom>>
    /\ UNCHANGED <<collegeWrapped, inst>>

\* [variant] an effect whose cleanup aborts the requests in flight
UnmountCollegeAbort ==
    /\ collegeStatus # "unmounted"
    /\ ~effectPending
    /\ collegeStatus' = "unmounted"
    /\ collegeDom' = <<>>
    /\ requests' = [i \in Instances |->
                     [k \in DOMAIN requests[i] |->
                        IF i = inst /\ requests[i][k].pos \in {"pending", "response"}
                        THEN [requests[i][k] EXCEPT !.pos = "rejected"]
                        ELSE requests[i][k]]]
    /\ UNCHANGED <<collegeWrapped, inst, joke, effectPending, setJokeCalls>>

\* root.unmount(): React first runs the effects of the last commit; the
\* effect returns no cleanup, so requests in flight are left alone
UnmountCollege ==
    /\ collegeStatus # "unmounted"
    /\ ~effectPending
    /\ collegeStatus' = "unmounted"
    /\ collegeDom' = <<>>
    /\ UNCHANGED <<collegeWrapped, inst, joke, effectPending, requests,
                   setJokeCalls>>


vars == <<countVars, themeVars, collegeVars>>

Init == CountInit /\ ThemeInit /\ CollegeInit

CountNext ==
    \/ \E w \in BOOLEAN : MountCount(w)
    \/ \E v \in Values : CallSetCount(v)
    \/ UnmountCount

ThemeNext ==
    \/ \E w \in BOOLEAN : MountTheme(w)
    \/ ClickToggle
    \/ UnmountTheme

CollegeNext ==
    \/ \E w \in BOOLEAN : MountCollege(w)
    \/ RunEffect
    \/ \E i \in Instances : \E k \in DOMAIN requests[i] :
          \/ \E b \in Bodies : FetchFulfil(i, k, b)
          \/ FetchReject(i, k)
          \/ JsonSettle(i, k)
    \/ UnmountCollege

Next ==
    \/ CountNext /\ UNCHANGED <<themeVars, collegeVars>>
    \/ ThemeNext /\ UNCHANGED <<countVars, collegeVars>>
    \/ CollegeNext /\ UNCHANGED <<countVars, themeVars>>

Spec == Init /\ [][Next]_vars

\* The joke tree alone, with the body of every response that arrived
\* eventually read: the promise of response.json() settles.
LiveNext == CollegeNext /\ UNCHANGED <<countVars, themeVars>>

LiveSpec ==
    /\ Init
    /\ [][LiveNext]_vars
    /\ \A i \in Instances :
          WF_vars(/\ \E k \in DOMAIN requests[i] : JsonSettle(i, k)
                  /\ UNCHANGED <<countVars, themeVars>>)

\* ------------------------------------------------------------ properties
CountLive == countStatus = "mounted" /\ countWrapped

ThemeLive == themeStatus = "mounted" /\ themeWrapped

CollegeLive == collegeStatus = "mounted" /\ collegeWrapped

\* C1: every mount of CountProvider starts with count 100: as long as the
\* setter has not been called in the current mount, the state is 100 and
\* every CompB shows 100, whatever an earlier mount left behind.
C1_MountStartsAt100 ==
    (CountLive /\ lastSet = <<>>) =>
        /\ count = 100
        /\ Len(countDom) = NumCompB
        /\ \A k \in 1 .. NumCompB : countDom[k] = 100

C1_Witness ==
    /\ CountLive
    /\ lastSet = <<>>
    /\ countDom[1] = 100

\* C2: after setCount(v) the state is v and every consumer shows v, for
\* every integer v offered, negative ones included.
C2_SetterVerbatim ==
    (CountLive /\ lastSet # <<>>) =>
        /\ count = lastSet[1]
        /\ Len(countDom) = NumCompB
        /\ \A k \in 1 .. NumCompB : countDom[k] = lastSet[1]

C2_Witness ==
    /\ CountLive
    /\ lastSet = <<-1>>
    /\ countDom[NumCompB] = -1

\* C3: a consumer mounted without its provider fails and renders nothing; a
\* consumer mounted inside its provider does not fail.
C3_NoProviderFails ==
    /\ (countStatus # "unmounted" /\ ~countWrapped) =>
            (countStatus = "crashed" /\ countDom = <<>>)
    /\ (collegeStatus # "unmounted" /\ ~collegeWrapped) =>
            (collegeStatus = "crashed" /\ collegeDom = <<>>)
    /\ (themeStatus # "unmounted" /\ ~themeWrapped) =>
            (themeStatus = "crashed" /\ themeDom = <<>>)
    /\ (countStatus # "unmounted" /\ countWrapped) => countStatus = "mounted"
    /\ (collegeStatus # "unmounted" /\ collegeWrapped) =>
            collegeStatus = "mounted"
    /\ (themeStatus # "unmounted" /\ themeWrapped) => themeStatus = "mounted"

C3_Witness ==
    /\ countStatus = "crashed"
    /\ collegeStatus = "crashed"
    /\ themeStatus = "crashed"

\* C4: every provider instance calls setJoke at most once; within a mount
\* joke changes only from the placeholder to the parsed body of the response;
\* and once the chain of a successful request has run, the instance has
\* written exactly once and, if still mounted, exposes the parsed body.
C4_OneWrite ==
    /\ [](\A i \in Instances :
            /\ setJokeCalls[i] <= 1
            /\ \A k \in DOMAIN requests[i] :
                  requests[i][k].pos = "done" =>
                     /\ setJokeCalls[i] = 1
                     /\ (i = inst /\ CollegeLive) =>
                           \/ joke = Object(<<"Programming">>)
                                /\ requests[i][k].body = "{\"category\":\"Programming\"}"
                           \/ joke = Object(<<>>)
                                /\ requests[i][k].body = "{\"error\":true}")
    /\ [][(inst' = inst /\ joke' # joke) =>
             (joke = EmptyString /\ setJokeCalls[inst] = 0
                /\ setJokeCalls'[inst] = 1)]_vars

C4_Witness ==
    /\ CollegeLive
    /\ setJokeCalls[inst] = 1
    /\ joke = Object(<<"Programming">>)

\* C5: a request that failed, or whose body is not JSON, leaves the instance
\* without a call of setJoke and without another request; while the instance
\* is mounted joke is the placeholder and CompA shows what it showed at
\* first.
RequestFailed(r) ==
    /\ r.pos \in {"rejected", "done"}
    /\ r.body \in {NoBody, "<html>"}

C5_FailureLeavesPlaceholder ==
    \A i \in Instances : \A k \in DOMAIN requests[i] :
        RequestFailed(requests[i][k]) =>
            /\ requests[i][k].pos = "rejected"
            /\ setJokeCalls[i] = 0
            /\ Len(requests[i]) = 1
            /\ (i = inst /\ CollegeLive) =>
                  /\ joke = EmptyString
                  /\ collegeDom = <<[threw |-> FALSE, h1 |-> "Joke of the day",
                                     h2 |-> <<>>]>>

C5_Witness ==
    /\ CollegeLive
    /\ inst = 2
    /\ requests[1] = <<[pos |-> "rejected", body |-> NoBody]>>
    /\ requests[2] = <<[pos |-> "rejected", body |-> "<html>"]>>

\* C6: unmounting leaves the requests as they are, and the handler of a
\* response calls setJoke whether or not its instance is still mounted.
C6_NoCancelOnUnmount ==
    /\ [][(collegeStatus # "unmounted" /\ collegeStatus' = "unmounted") =>
             requests' = requests]_vars
    /\ [][\A i \in Instances : \A k \in DOMAIN requests[i] :
             (requests[i][k].pos = "response" /\ requests'[i][k].pos = "done")
                => setJokeCalls'[i] = setJokeCalls[i] + 1]_vars
    /\ [](\A i \in Instances : \A k \in DOMAIN requests[i] :
             requests[i][k].pos = "done" => setJokeCalls[i] >= 1)

\* the instance was unmounted before the response came: it has called its
\* setter and the joke it rendered last is still the placeholder
C6_Witness ==
    /\ collegeStatus = "unmounted"
    /\ inst = 1
    /\ setJokeCalls[1] = 1
    /\ joke = EmptyString

\* C7: an instance has issued no request before its effect ran and exactly
\* one from then on, whatever is rendered afterwards.
C7_OneRequestPerMount ==
    \A i \in Instances :
        /\ Len(requests[i]) <= 1
        /\ i > inst => Len(requests[i]) = 0
        /\ (i = inst /\ effectPending) => Len(requests[i]) = 0
        /\ (i < inst \/ (i = inst /\ ~effectPending)) => Len(requests[i]) = 1

\* after the render that the write of setJoke caused
C7_Witness ==
    /\ CollegeLive
    /\ setJokeCalls[inst] = 1
    /\ joke # EmptyString
    /\ ~effectPending
    /\ Len(requests[inst]) = 1

\* C8: when the response {category: "Programming"} has arrived for the
\* mounted instance, CompA comes to show "Category: Programming" unless the
\* tree is unmounted first; and the heading, once shown, stays until the
\* tree is unmounted.
ProgrammingArrived ==
    /\ CollegeLive
    /\ \E k \in DOMAIN requests[inst] :
          requests[inst][k] =
             [pos |-> "response", body |-> "{\"category\":\"Programming\"}"]

ProgrammingShown ==
    /\ CollegeLive
    /\ Len(collegeDom) = 1
    /\ collegeDom[1].h2 = <<"Category: ", "Programming">>

C8_EventuallyCategory ==
    /\ ProgrammingArrived ~> (ProgrammingShown \/ collegeStatus = "unmounted")
    /\ [][(ProgrammingShown /\ collegeStatus' # "unmounted") =>
             ProgrammingShown']_vars

C8_Witness == ProgrammingShown /\ collegeDom[1].h1 = "Joke of the day"

\* C9: in every state all consumers below a provider show the provider's
\* current value.
C9_ConsumersShowCurrent ==
    /\ CountLive =>
          /\ Len(countDom) = NumCompB
          /\ \A k \in 1 .. NumCompB : countDom[k] = count
    /\ ThemeLive =>
          /\ Len(themeDom) = 1
          /\ themeDom[1].h1 = <<theme, " MODE">>
    /\ CollegeLive =>
          /\ Len(collegeDom) = 1
          /\ collegeDom[1].h2 =
                IF joke.category \in {<<>>, <<"">>}
                THEN <<>>
                ELSE <<"Category: ", joke.category[1]>>

C9_Witness ==
    /\ CountLive
    /\ NumCompB >= 2
    /\ lastSet = <<42>>
    /\ \A k \in 1 .. NumCompB : countDom[k] = 42

\* C10: after n clicks since the mount the theme is "dark" for odd n and
\* "light" for even n, and Navbar's heading and colours are those of the
\* theme.
C10_ToggleParity ==
    ThemeLive =>
        /\ theme \in {"light", "dark"}
        /\ theme = (IF clicks % 2 = 1 THEN "dark" ELSE "light")
        /\ Len(themeDom) = 1
        /\ themeDom[1].h1 = <<theme, " MODE">>
        /\ themeDom[1].backgroundColor =
              (IF theme = "light" THEN "#fff" ELSE "#222")
        /\ themeDom[1].color = (IF theme = "light" THEN "#000" ELSE "#fff")

C10_Witness ==
    /\ ThemeLive
    /\ clicks = 2
    /\ theme = "light"
    /\ themeDom[1].h1 = <<"light", " MODE">>

=============================================================================
